---- MODULE Spec2Model ----
(***************************************************************************)
(* Model of medaka/inference.py: the train/validation split and the two    *)
(* BatchQueue pipelines of TrainBatcher (driver thread, bounded queue,     *)
(* consumer, stop), and the label encoder process_labels.                  *)
(*                                                                         *)
(* A SampleRef (sample_key, source_file) is a positive integer.  A batch   *)
(* is the sequence of the SampleRefs stacked into it, in stacking order.   *)
(***************************************************************************)
EXTENDS Integers, Sequences, FiniteSets, TLC

\* ------------------------------------------------------------------ bounds
\* largest number of samples in the training feature files
MaxN == 3
\* largest batch_size
MaxB == 2
\* largest seed
MaxSeed == 1
\* epochs a driver may start before the model stops following it
MaxEpochs == 3

\* most labels in the label counts
MaxLabels == 3
\* longest run length of a raw label
MaxRun == 3
\* largest count of one label
MaxCount == 2
\* largest finite max_label_len
MaxLabelLen == 2
\* most samples in the feature files when only the split is followed
MaxSplitN == 5
\* consumer threads pulling from one batch sequence
MaxWorkers == 2
\* most samples in the feature files when several workers are followed
MaxWorkerN == 3

\* the cap on the queue size, min(2 * n_batches, 100)
QueueCap == 100

Queues == {"valid", "train"}

\* the worker threads of fit_generator
Workers == 1..MaxWorkers

\* validation fractions, in tenths: 0.2, 0.5, 0.8
Fractions == {2, 5, 8}

VARIABLES
    samples,        \* TrainBatcher.samples, as the constructor leaves it
    validation,     \* TrainBatcher.validation: a fraction or a validation source
    seed,           \* TrainBatcher.seed
    batch_size,     \* TrainBatcher.batch_size
    unlabelled,     \* the SampleRefs whose stored sample has no labels
    mpc,            \* position of the main thread (constructor, training, stop)
    rng,            \* state of the global numpy generator
    split,          \* train_samples / valid_samples as assigned by the constructor
    n_batches,      \* n_train_batches / n_valid_batches
    qsamples,       \* BatchQueue.samples, shuffled in place by the driver
    maxsize,        \* maxsize of BatchQueue._queue
    queue,          \* BatchQueue._queue, oldest batch first
    stopped,        \* BatchQueue.stopped
    dpc,            \* position of the driver thread BatchQueue.qthread
    pos,            \* samples of the current epoch already grouped
    pending,        \* the stacked batch the driver is about to put
    epoch,          \* the driver's epoch counter
    nput,           \* history: number of batches put into the queue so far
    ebatches,       \* history: the batches put during the current epoch
    ngot,           \* history: number of batches handed to the consumer
    holder,         \* the worker inside next() of the guarded generator, or 0
    wlast,          \* history: ordinal of the batch each worker was handed last
    lastGot,        \* history: the batch the consumer was handed last
    spc,            \* position of BatchQueue.stop()
    crit,           \* "Read thread did not terminate." was logged
    aliveAtJoin,    \* history: the driver was alive when join returned
    blockedAtStop,  \* history: the driver was blocked in put when stop() set the flag
    atStop,         \* history, where followed: batches put and epochs begun at the stop
    label_counts,   \* meta['medaka_label_counts']: <<label, count>> in key order
    max_label_len,  \* TrainBatcher.max_label_len
    lpc,            \* "new", then "done" once process_labels has been called
    lresult,        \* what process_labels returned, or the exception it raised
    xy,             \* what sample_to_x_y made of a sample holding one label
    c2pc,           \* position of a second TrainBatcher.__init__ on the same inputs
    split2,         \* train_samples / valid_samples of the second TrainBatcher
    ypc,            \* position of the generator yield_batches of each queue
    ycaught,        \* the exception caught by "except Exception as e", or "none"
    ylogged,        \* "Exception caught why yielding batches" was logged
    yraised         \* the exception that left yield_batches, or "none"

inputVars == <<validation, seed, batch_size, unlabelled>>
ctorVars  == <<samples, split, n_batches, maxsize>>
drvVars   == <<qsamples, dpc, pos, pending, epoch, nput, ebatches>>
stopVars  == <<stopped, spc, crit, aliveAtJoin, blockedAtStop, atStop>>
workVars  == <<holder, wlast>>
conVars   == <<ngot, lastGot, workVars>>
labInputs == <<label_counts, max_label_len>>
labVars   == <<labInputs, lpc, lresult, xy>>
secondVars == <<c2pc, split2>>
yieldVars == <<ypc, ycaught, ylogged, yraised>>
vars == <<inputVars, ctorVars, drvVars, stopVars, conVars, labVars, secondVars,
          yieldVars, mpc, rng, queue>>

\* ----------------------------------------------------------------- helpers
Min(a, b) == IF a < b THEN a ELSE b

\* math.ceil(n / b) for the sizes modelled
Ceil(n, b) == (n + b - 1) \div b

Range(s) == {s[i] : i \in 1..Len(s)}

Iota(n) == [i \in 1..n |-> i]

\* ------------------------------------------------------- numpy's generator
\* np.random.seed(s): the state is a function of the seed alone
SeedRng(s) == s % 8

\* one draw advances the state
NextRng(r) == (5 * r + 3) % 8

\* rk_interval(i): a number in 0..i taken from the state
RandInterval(r, i) == r % (i + 1)

Swap(x, i, j) == [x EXCEPT ![i] = x[j], ![j] = x[i]]

\* np.random.shuffle(x): for i in reversed(range(1, n)): j = rk_interval(i);
\* x[i], x[j] = x[j], x[i]   (0-based i, j; the lists here are 1-based)
RECURSIVE FisherYates(_, _, _)
FisherYates(x, i, r) ==
    IF i < 1 THEN [list |-> x, rng |-> r]
    ELSE FisherYates(Swap(x, i + 1, RandInterval(r, i) + 1), i - 1, NextRng(r))

Shuffle(x, r) == FisherYates(x, Len(x) - 1, r)

\* ------------------------------------------------------------ the splitter
\* int((1 - validation) * len(samples)) in double arithmetic, the fraction
\* being t/10.  1 - 0.8 is 0.19999999999999996 and 1 - 0.9 is
\* 0.09999999999999998, so a product that is a whole number in exact
\* arithmetic comes out just below it and int() drops it by one; for the
\* other tenths, and for every n < 90, the result is the exact floor.
NSampleTrain(t, n) ==
    LET exact == ((10 - t) * n) \div 10
    IN  IF t \in {8, 9} /\ n > 0 /\ ((10 - t) * n) % 10 = 0
        THEN exact - 1 ELSE exact

\* DataIndex(files).samples for the validation source v: "shared" is the
\* first of the training feature files given again as validation file (it
\* holds the first training sample), "empty" a file with no sample, "other" a
\* file that is no training file: its SampleRef differs from every training
\* SampleRef, as a SampleRef names its file
DataIndexSamples(v, feats) ==
    CASE v.src = "shared" -> SubSeq(feats, 1, 1)
      [] v.src = "empty"  -> <<>>
      [] OTHER            -> <<Len(feats) + 1>>

ValidationInputs ==
    {[mode |-> "frac", tenths |-> t] : t \in Fractions}
    \cup {[mode |-> "explicit", src |-> x] : x \in {"shared", "empty", "other"}}

\* ------------------------------------------------------- process_labels
\* A character is one of "*", "A", "C", "a"; Python orders strings by code
\* point.  A string is a sequence of characters.  A raw label is either a
\* string, [s |-> string], or a (base, run_length) tuple, [b |-> index into
\* medaka.common.decoding, n |-> run length].
CharRank(c) == CASE c = "*" -> 42 [] c = "A" -> 65 [] c = "C" -> 67 [] OTHER -> 97

\* a < b for two Python strings
RECURSIVE LexLess(_, _)
LexLess(a, b) ==
    IF b = <<>> THEN FALSE
    ELSE IF a = <<>> THEN TRUE
    ELSE IF Head(a) # Head(b) THEN CharRank(Head(a)) < CharRank(Head(b))
    ELSE LexLess(Tail(a), Tail(b))

\* the characters of medaka.common.decoding at the indices used here
DecodingChar(b) == CASE b = 0 -> "*" [] b = 1 -> "a" [] b = 5 -> "A" [] OTHER -> "C"

\* str.upper()
Upper(c) == IF c = "a" THEN "A" ELSE c

Repeat(c, n) == [i \in 1..n |-> c]

\* type(l) == tuple
IsTuple(l) == "b" \in DOMAIN l

\* l[1] * decoding[l[0]].upper()
Expand(l) == Repeat(Upper(DecodingChar(l.b)), l.n)

\* l[:max_label_len]
Truncate(str, m) == SubSeq(str, 1, Min(m, Len(str)))

\* list(sorted(set(...)))
RECURSIVE SortedList(_)
SortedList(S) ==
    IF S = {} THEN <<>>
    ELSE LET least == CHOOSE x \in S : \A y \in S \ {x} : LexLess(x, y)
         IN  <<least>> \o SortedList(S \ {least})

\* the strings of S with the greatest first: a list that is not sorted
LabelDecodingUnsorted(S) ==
    IF S = {} THEN <<>>
    ELSE LET most == CHOOSE x \in S : \A y \in S \ {x} : LexLess(y, x)
         IN  <<most>> \o SortedList(S \ {most})

\* label_decoding = list(sorted(set(new_labels)))
LabelDecoding(S) == SortedList(S)

\* list.index(x), 0-based; -1 stands for the ValueError of a missing x
IndexOf(xs, x) ==
    IF \E i \in 1..Len(xs) : xs[i] = x
    THEN (CHOOSE i \in 1..Len(xs) : xs[i] = x /\ \A j \in 1..i - 1 : xs[j] # x) - 1
    ELSE -1

\* counts that keep only the first raw label of each code
SumCountsFirst(lc, enc, c) ==
    LET hits == {i \in 1..Len(lc) : enc[i] = c}
    IN  IF hits = {} THEN 0
        ELSE lc[CHOOSE i \in hits : \A j \in hits : i <= j].count

\* counts that keep only the last raw label of each code
SumCountsLast(lc, enc, c) ==
    LET hits == {i \in 1..Len(lc) : enc[i] = c}
    IN  IF hits = {} THEN 0
        ELSE lc[CHOOSE i \in hits : \A j \in hits : j <= i].count

\* new_counts[label_encoding[l]] += label_counts[l] over the labels l: the
\* count under the code c, enc being the codes of the labels of lc in order
RECURSIVE SumCounts(_, _, _)
SumCounts(lc, enc, c) ==
    IF lc = <<>> THEN 0
    ELSE (IF Head(enc) = c THEN Head(lc).count ELSE 0)
         + SumCounts(Tail(lc), Tail(enc), c)

\* an encoder that returns empty results where it should raise
ReturnedEmpty(e) == [status |-> "ok", encoding |-> <<>>, decoding |-> <<>>, counts |-> <<>>]

\* the exception e leaves process_labels: nothing is returned
Raised(e) == [status |-> e, encoding |-> <<>>, decoding |-> <<>>, counts |-> <<>>]

\* process_labels(label_counts, max_label_len): lc is the Counter as the
\* sequence of its (label, count) items in key order, mll the maximum label
\* length, [finite |-> TRUE, n |-> length] or np.inf, [finite |-> FALSE].
\*   old_labels[0] raises IndexError for an empty Counter;
\*   for tuple labels new_labels is a generator, which line 638 turns into a
\*   list only when max_label_len < np.inf; otherwise zip() at line 640
\*   exhausts it and set(new_labels) at line 641 is empty;
\*   label_decoding.index raises ValueError for a string that is not there.
ProcessLabels(lc, mll) ==
    IF lc = <<>> THEN Raised("IndexError")
    ELSE
    LET idx        == 1..Len(lc)
        old_labels == [i \in idx |-> lc[i].label]
        tuples     == IsTuple(old_labels[1])
        expanded   == [i \in idx |-> IF tuples THEN Expand(old_labels[i])
                                     ELSE old_labels[i].s]
        new_labels == [i \in idx |-> IF mll.finite
                                     THEN Truncate(expanded[i], mll.n)
                                     ELSE expanded[i]]
        exhausted  == tuples /\ ~mll.finite
        decoding   == LabelDecoding(IF exhausted THEN {} ELSE Range(new_labels))
        enc        == [i \in idx |-> IndexOf(decoding, new_labels[i])]
    IN  IF \E i \in idx : enc[i] = -1 THEN Raised("ValueError")
        ELSE [status   |-> "ok",
              encoding |-> [l \in Range(old_labels) |->
                              enc[CHOOSE i \in idx : old_labels[i] = l]],
              decoding |-> decoding,
              counts   |-> [c \in Range(enc) |-> SumCounts(lc, enc, c)]]

StrLabels == {[s |-> Repeat(c, n)] : c \in {"A", "C"}, n \in 1..MaxRun}

TupleLabels == {[b |-> b, n |-> n] : b \in {1, 5}, n \in 1..MaxRun}

\* the Counters over the labels U: at most MaxLabels distinct keys, in any
\* key order, each counted 1..MaxCount times
LabelCountsOver(U) ==
    {lc \in UNION {[1..k -> [label : U, count : 1..MaxCount]] : k \in 0..MaxLabels} :
        \A i, j \in 1..Len(lc) : i # j => lc[i].label # lc[j].label}

LabelCountInputs == LabelCountsOver(StrLabels) \cup LabelCountsOver(TupleLabels)

MaxLabelLenInputs ==
    {[finite |-> TRUE, n |-> k] : k \in 1..MaxLabelLen} \cup {[finite |-> FALSE, n |-> 0]}

\* the label counts of the feature files when the pipeline is followed
CtorLabelCounts ==
    {<<>>, <<[label |-> [b |-> 5, n |-> 1], count |-> 2],
             [label |-> [b |-> 5, n |-> 3], count |-> 1]>>}

\* self.n_classes, the num_classes of the one-hot expansion in sample_to_x_y:
\* the number of keys of the label counts as the constructor received them,
\* taken before process_labels recomputes them
NClasses(lc) == Len(lc)

\* ------------------------------------------------ TrainBatcher.sample_to_x_y
\* the key looked up in label_encoding for the label l of a sample:
\* l[:min(max_label_len, len(l))] for a string and
\* (l['base'], min(max_label_len, l['run_length'])) otherwise; min with
\* np.inf is the other argument
SampleKey(l, mll) ==
    IF IsTuple(l)
    THEN [b |-> l.b, n |-> IF mll.finite THEN Min(mll.n, l.n) ELSE l.n]
    ELSE [s |-> IF mll.finite THEN SubSeq(l.s, 1, Min(mll.n, Len(l.s))) ELSE l.s]

\* the label array y of a sample whose labels are the one label l, with
\* sparse labels: label_encoding[key], or the KeyError of a missing key
SampleToY(l, enc, mll) ==
    IF SampleKey(l, mll) \in DOMAIN enc
    THEN [label |-> l, status |-> "ok", y |-> enc[SampleKey(l, mll)]]
    ELSE [label |-> l, status |-> "KeyError", y |-> -1]

NoSample == [label |-> <<>>, status |-> "none", y |-> -1]

\* ------------------------------------------------------------------- Init
NoQueue == [q \in Queues |-> <<>>]

\* an element of a queue: the stacked batch (items) and, as history, its
\* ordinal k among the batches put into that queue
NoBatch == [k |-> 0, items |-> <<>>]

\* the state before TrainBatcher is constructed, for feature files of 0..maxn
\* samples, validation requests vals, seeds 0..maxseed, batch sizes 1..maxb,
\* sets of unlabelled samples unl, label counts lcs and maximum label
\* lengths mlls
InitWith(maxn, vals, maxseed, maxb, unl, lcs, mlls) ==
    /\ \E n \in 0..maxn : samples = Iota(n)
    /\ validation \in vals
    /\ seed \in 0..maxseed
    /\ batch_size \in 1..maxb
    /\ unlabelled \in unl
    /\ label_counts \in lcs
    /\ max_label_len \in mlls
    /\ lpc = "new"
    /\ lresult = Raised("none")
    /\ xy = NoSample
    /\ mpc = "new"
    /\ rng = 0
    /\ split = NoQueue
    /\ n_batches = [q \in Queues |-> 0]
    /\ qsamples = NoQueue
    /\ maxsize = [q \in Queues |-> 0]
    /\ queue = NoQueue
    /\ stopped = [q \in Queues |-> FALSE]
    /\ dpc = [q \in Queues |-> "notstarted"]
    /\ pos = [q \in Queues |-> 0]
    /\ pending = NoQueue
    /\ epoch = [q \in Queues |-> 0]
    /\ nput = [q \in Queues |-> 0]
    /\ ebatches = NoQueue
    /\ ngot = [q \in Queues |-> 0]
    /\ lastGot = [q \in Queues |-> NoBatch]
    /\ holder = [q \in Queues |-> 0]
    /\ wlast = [q \in Queues |-> [w \in Workers |-> 0]]
    /\ spc = [q \in Queues |-> "idle"]
    /\ crit = [q \in Queues |-> FALSE]
    /\ aliveAtJoin = [q \in Queues |-> FALSE]
    /\ blockedAtStop = [q \in Queues |-> FALSE]
    /\ atStop = [q \in Queues |-> [nput |-> 0, begun |-> 0]]
    /\ c2pc = "none"
    /\ split2 = NoQueue
    /\ ypc = [q \in Queues |-> "iter"]
    /\ ycaught = [q \in Queues |-> "none"]
    /\ ylogged = [q \in Queues |-> FALSE]
    /\ yraised = [q \in Queues |-> "none"]

\* the maximum label length when the pipeline is followed
CtorMaxLabelLen == {[finite |-> TRUE, n |-> 2]}

Init ==
    InitWith(MaxN, ValidationInputs, MaxSeed, MaxB, {{}, {1}}, CtorLabelCounts,
             CtorMaxLabelLen)

\* ------------------------------------------------- TrainBatcher.__init__
\* the split of the constructor: [train, valid, samples, rng]
SplitSamples(smp, v, sd, r) ==
    IF v.mode = "frac"
    THEN LET sh == Shuffle(smp, SeedRng(sd))
             n  == NSampleTrain(v.tenths, Len(smp))
         IN  [train |-> SubSeq(sh.list, 1, n),
              valid |-> SubSeq(sh.list, n + 1, Len(smp)),
              samples |-> sh.list, rng |-> sh.rng]
    ELSE [train |-> smp, valid |-> DataIndexSamples(v, smp),
          samples |-> smp, rng |-> r]

\* a batch count that rounds down
NBatchesFloor(n, b) == n \div b

\* ceil(len(self.train_samples) / batch_size), and the same for validation
NBatches(n, b) == Ceil(n, b)

\* lines 225-283: up to the construction of the two queues.  self.samples[0]
\* raises IndexError when the feature files hold no sample; the split and
\* the batch counts are assigned; then process_labels is called and what it
\* raises leaves the constructor.
ConstructSplit ==
    /\ mpc = "new"
    /\ IF samples = <<>>
       THEN /\ mpc' = "failed"
            /\ UNCHANGED <<samples, split, n_batches, rng, lpc, lresult>>
       ELSE LET s == SplitSamples(samples, validation, seed, rng)
                r == ProcessLabels(label_counts, max_label_len)
            IN  /\ samples' = s.samples
                /\ split' = [train |-> s.train, valid |-> s.valid]
                /\ n_batches' = [train |-> NBatches(Len(s.train), batch_size),
                                 valid |-> NBatches(Len(s.valid), batch_size)]
                /\ rng' = s.rng
                /\ lpc' = "done"
                /\ lresult' = r
                /\ mpc' = (IF r.status = "ok" THEN "split" ELSE "failed")
    /\ UNCHANGED <<secondVars, yieldVars, inputVars, labInputs, xy, maxsize, drvVars, stopVars, conVars, queue>>

\* BatchQueue.__init__ as called from TrainBatcher.__init__: the validation
\* queue first, then the training queue; each seeds the global generator and
\* starts its driver thread
StartQueue(q) ==
    /\ mpc = (IF q = "valid" THEN "split" ELSE "valid_started")
    /\ qsamples' = [qsamples EXCEPT ![q] = split[q]]
    /\ rng' = SeedRng(seed)
    /\ maxsize' = [maxsize EXCEPT ![q] = Min(2 * n_batches[q], QueueCap)]
    /\ dpc' = [dpc EXCEPT ![q] = "loop"]
    /\ mpc' = (IF q = "valid" THEN "valid_started" ELSE "running")
    /\ UNCHANGED <<secondVars, yieldVars, labVars, inputVars, samples, split, n_batches, pos, pending, epoch,
                   nput, ebatches, stopVars, conVars, queue>>

\* ------------------------------------------------- BatchQueue._fill_queue
Alive(q) == dpc[q] \in {"loop", "checked", "put"}

\* queue.Queue(maxsize): a maxsize <= 0 means the queue is unbounded
QueueFull(q) == maxsize[q] > 0 /\ Len(queue[q]) >= maxsize[q]

\* grouper: the next batch_size elements of the iterator, fewer at its end
NextGroup(x, p, b) == SubSeq(x, p + 1, Min(p + b, Len(x)))

\* sample_to_x_y raises ValueError("Cannot train without labels.") for a
\* sample whose labels are None
TransformOk(g) == Range(g) \cap unlabelled = {}

\* a batch stacked in the reverse of the order of its group
RECURSIVE StackedReversed(_)
StackedReversed(g) ==
    IF g = <<>> THEN <<>> ELSE Append(StackedReversed(Tail(g)), Head(g))

\* items.append(res.result()) for each sample of the group in turn, each
\* submitted only when the one before has returned; zip(*items) and
\* np.stack keep that order, for xs and ys alike: row i is sample i
Stacked(g) == [i \in 1..Len(g) |-> g[i]]

\* lines 388-394 for the group starting after p samples of the list x: every
\* sample of the group is transformed in turn and the results are stacked, or
\* res.result() re-raises what prep_func raised, the exception leaves
\* _fill_queue and the thread ends
Transform(q, x, p) ==
    IF TransformOk(NextGroup(x, p, batch_size))
    THEN /\ pending' = [pending EXCEPT ![q] = Stacked(NextGroup(x, p, batch_size))]
         /\ pos' = [pos EXCEPT ![q] = p + Len(NextGroup(x, p, batch_size))]
         /\ dpc' = [dpc EXCEPT ![q] = "put"]
    ELSE /\ pending' = [pending EXCEPT ![q] = <<>>]
         /\ pos' = [pos EXCEPT ![q] = p]
         /\ dpc' = [dpc EXCEPT ![q] = "crashed"]

\* the list after np.random.shuffle(self.samples), with the generator's state
EpochShuffle(x, r) == Shuffle(x, r)

\* a test that never sees the flag
IsSetNever(flag) == FALSE

\* self.stopped.is_set()
IsSet(flag) == flag

\* batch = 0; np.random.shuffle(self.samples) and the first group of the
\* epoch; for an empty list the pass over grouper ends at once, epoch += 1
\* and the driver is back at the test of the while loop
BeginEpoch(q) ==
    LET sh == EpochShuffle(qsamples[q], rng)
    IN  /\ qsamples' = [qsamples EXCEPT ![q] = sh.list]
        /\ rng' = sh.rng
        /\ ebatches' = [ebatches EXCEPT ![q] = <<>>]
        /\ IF sh.list = <<>>
           THEN /\ epoch' = [epoch EXCEPT ![q] = @ + 1]
                /\ dpc' = [dpc EXCEPT ![q] = "loop"]
                /\ UNCHANGED <<pos, pending>>
           ELSE /\ Transform(q, sh.list, 0)
                /\ UNCHANGED epoch

\* while not self.stopped.is_set(): and the beginning of the epoch, in one
\* step
DriverLoop(q) ==
    /\ dpc[q] = "loop"
    /\ IF IsSet(stopped[q])
       THEN /\ dpc' = [dpc EXCEPT ![q] = "ended"]
            /\ UNCHANGED <<qsamples, rng, pos, pending, epoch, ebatches>>
       ELSE /\ epoch[q] < MaxEpochs
            /\ BeginEpoch(q)
    /\ UNCHANGED <<secondVars, yieldVars, labVars, inputVars, ctorVars, nput, stopVars, conVars, mpc, queue>>

\* the epochs the driver has begun: the finished ones and the current one
Begun(q) == epoch[q] + (IF dpc[q] \in {"put", "crashed"} THEN 1 ELSE 0)

\* what put does to the queue
PutResult(qu, b) == Append(qu, b)

\* a put that never blocks
CanPutAlways(q) == TRUE

\* a put that is never woken
CanPutNever(q) == FALSE

\* put may proceed: queue.Queue.put blocks while the queue is full
CanPut(q) == ~QueueFull(q)

\* self._queue.put(res); batch += 1; then the next group of the epoch, or
\* after the last group the for loop ends and epoch += 1
DriverPut(q) ==
    /\ dpc[q] = "put"
    /\ CanPut(q)
    /\ queue' = [queue EXCEPT ![q] =
                     PutResult(@, [k |-> nput[q] + 1, items |-> pending[q]])]
    /\ nput' = [nput EXCEPT ![q] = @ + 1]
    /\ ebatches' = [ebatches EXCEPT ![q] = Append(@, pending[q])]
    /\ IF pos[q] = Len(qsamples[q])
       THEN /\ epoch' = [epoch EXCEPT ![q] = @ + 1]
            /\ dpc' = [dpc EXCEPT ![q] = "loop"]
            /\ pending' = [pending EXCEPT ![q] = <<>>]
            /\ UNCHANGED pos
       ELSE /\ Transform(q, qsamples[q], pos[q])
            /\ UNCHANGED epoch
    /\ UNCHANGED <<secondVars, yieldVars, labVars, inputVars, ctorVars, qsamples, stopVars, conVars, mpc, rng>>

\* ------------------------------------------------ BatchQueue.yield_batches
\* a get that leaves the batch in the queue
GetResultKeep(qu) == qu

\* what get does to the queue, and what it returns
GetResult(qu) == Tail(qu)

\* a get that hands out the newest batch
GetItemLifo(qu) == qu[Len(qu)]

GetItem(qu) == Head(qu)

\* yield self._queue.get(): blocks while the queue is empty.  The consumers
\* are the workers of fit_generator (lines 199-206), which has returned when
\* run_training calls batcher.stop() (line 209)
ConsumerGet(q) ==
    /\ mpc = "running"
    /\ ypc[q] = "iter"
    /\ queue[q] # <<>>
    /\ lastGot' = [lastGot EXCEPT ![q] = GetItem(queue[q])]
    /\ ngot' = [ngot EXCEPT ![q] = @ + 1]
    /\ queue' = [queue EXCEPT ![q] = GetResult(@)]
    /\ UNCHANGED <<workVars, secondVars, yieldVars, labVars, inputVars, ctorVars, drvVars, stopVars, mpc, rng>>

\* ------------------------------------ TrainBatcher.stop / BatchQueue.stop
\* an Event whose set() leaves the flag as it was
SetEventNoop(flag) == flag

\* threading.Event.set(): the flag is true afterwards
SetEvent(flag) == TRUE

\* BatchQueue.stop() as called by TrainBatcher.stop(), the training queue
\* first: self.stopped.set().  With record, the history atStop is written.
StopSetWith(q, record) ==
    /\ mpc = (IF q = "train" THEN "running" ELSE "train_stopped")
    /\ stopped' = [stopped EXCEPT ![q] = SetEvent(@)]
    /\ spc' = [spc EXCEPT ![q] = "joining"]
    /\ blockedAtStop' = [blockedAtStop EXCEPT ![q] = dpc[q] = "put" /\ QueueFull(q)]
    /\ atStop' = IF record
                 THEN [atStop EXCEPT ![q] = [nput |-> nput[q], begun |-> Begun(q)]]
                 ELSE atStop
    /\ mpc' = (IF q = "train" THEN "join_train" ELSE "join_valid")
    /\ UNCHANGED <<secondVars, yieldVars, labVars, inputVars, ctorVars, drvVars, conVars,
                   crit, aliveAtJoin, rng, queue>>

StopSet(q) == StopSetWith(q, FALSE)

\* the value of the attribute self.qthread.is_alive in "if self.qthread.is_alive:"
\* the bound method itself, which is never called, and is true as every
\* method object is
IsAliveAttr(q) == TRUE

\* self.qthread.join(2) returns when the thread has ended or after two
\* seconds; then the test of line 377
StopJoin(q) ==
    /\ mpc = (IF q = "train" THEN "join_train" ELSE "join_valid")
    /\ aliveAtJoin' = [aliveAtJoin EXCEPT ![q] = Alive(q)]
    /\ crit' = [crit EXCEPT ![q] = IsAliveAttr(q)]
    /\ spc' = [spc EXCEPT ![q] = "returned"]
    /\ mpc' = (IF q = "train" THEN "train_stopped" ELSE "stopped")
    /\ UNCHANGED <<secondVars, yieldVars, labVars, inputVars, ctorVars, drvVars, conVars, stopped, blockedAtStop, atStop,
                   rng, queue>>

Next ==
    \/ ConstructSplit
    \/ \E q \in Queues : StartQueue(q)
    \/ \E q \in Queues : DriverLoop(q)
    \/ \E q \in Queues : DriverPut(q)
    \/ \E q \in Queues : ConsumerGet(q)
    \/ \E q \in Queues : StopSet(q)
    \/ \E q \in Queues : StopJoin(q)

Spec == Init /\ [][Next]_vars

\* ------------------------------------------- the splitter on larger inputs
SplitValidationInputs ==
    {[mode |-> "frac", tenths |-> t] : t \in 1..9}
    \cup {[mode |-> "explicit", src |-> x] : x \in {"shared", "empty", "other"}}

InitSplit ==
    InitWith(MaxSplitN, SplitValidationInputs, MaxSeed, MaxB, {{}}, CtorLabelCounts,
             CtorMaxLabelLen)

SpecSplit == InitSplit /\ [][ConstructSplit]_vars

\* ---------------------------------------------- process_labels on its own
InitLabels ==
    InitWith(0, {[mode |-> "frac", tenths |-> 2]}, 0, 1, {{}}, LabelCountInputs,
             MaxLabelLenInputs)

\* a call of process_labels(label_counts, max_label_len)
CallProcessLabels ==
    /\ lpc = "new"
    /\ lpc' = "done"
    /\ lresult' = ProcessLabels(label_counts, max_label_len)
    /\ UNCHANGED <<secondVars, yieldVars, inputVars, labInputs, xy, ctorVars, drvVars, stopVars, conVars, mpc,
                   rng, queue>>

SpecLabels == InitLabels /\ [][CallProcessLabels]_vars

\* ------------------------ a second TrainBatcher built while the first runs
\* Fractional validation only, every sample labelled, label counts that
\* process_labels accepts.
FracInputs == {[mode |-> "frac", tenths |-> t] : t \in Fractions}

InitSecond ==
    InitWith(MaxN, FracInputs, MaxSeed, MaxB, {{}},
             CtorLabelCounts \ {<<>>}, CtorMaxLabelLen)

\* line 246 of a second TrainBatcher.__init__ with the same features, seed
\* and fraction, called by the main thread while the driver threads of the
\* first run: np.random.seed(self.seed) on the global generator
SecondSeed ==
    /\ mpc = "running"
    /\ c2pc = "none"
    /\ validation.mode = "frac"
    /\ rng' = SeedRng(seed)
    /\ c2pc' = "seeded"
    /\ UNCHANGED <<split2, yieldVars, labVars, inputVars, ctorVars, drvVars, stopVars, conVars, mpc,
                   queue>>

\* lines 247-250 of the second constructor: np.random.shuffle of its own copy
\* of DataIndex(features).samples, which is in the input order, with the
\* global generator as it is now, and the two slices
SecondShuffle ==
    /\ c2pc = "seeded"
    /\ LET sh == Shuffle(Iota(Len(samples)), rng)
           n  == NSampleTrain(validation.tenths, Len(samples))
       IN  /\ split2' = [train |-> SubSeq(sh.list, 1, n),
                         valid |-> SubSeq(sh.list, n + 1, Len(samples))]
           /\ rng' = sh.rng
    /\ c2pc' = "done"
    /\ UNCHANGED <<yieldVars, labVars, inputVars, ctorVars, drvVars, stopVars, conVars, mpc, queue>>

NextSecond ==
    \/ ConstructSplit
    \/ \E q \in Queues : StartQueue(q)
    \/ \E q \in Queues : DriverLoop(q)
    \/ \E q \in Queues : DriverPut(q)
    \/ SecondSeed
    \/ SecondShuffle

SpecSecond == InitSecond /\ [][NextSecond]_vars

\* --------------------------------- an exception inside yield_batches
\* exceptions, subclasses of Exception, that self._queue.get() may raise
Faults == {"MemoryError", "OSError"}

\* an exception that is not the one caught
ReraisedOther(e) == "RuntimeError"

\* raise e
Reraised(e) == e

\* self._queue.get() raises e; except Exception as e: the critical message
\* is logged and self.stop() is entered: self.stopped.set()
YieldRaise(q, e) ==
    /\ mpc = "running"
    /\ ypc[q] = "iter"
    /\ ycaught' = [ycaught EXCEPT ![q] = e]
    /\ ylogged' = [ylogged EXCEPT ![q] = TRUE]
    /\ stopped' = [stopped EXCEPT ![q] = SetEvent(@)]
    /\ spc' = [spc EXCEPT ![q] = "joining"]
    /\ blockedAtStop' = [blockedAtStop EXCEPT ![q] = dpc[q] = "put" /\ QueueFull(q)]
    /\ ypc' = [ypc EXCEPT ![q] = "joining"]
    /\ UNCHANGED <<secondVars, yraised, labVars, inputVars, ctorVars, drvVars, conVars,
                   crit, aliveAtJoin, atStop, mpc, rng, queue>>

\* the rest of self.stop(), the timed join and the test of line 377, and
\* then raise e, which ends the generator
YieldJoin(q) ==
    /\ ypc[q] = "joining"
    /\ aliveAtJoin' = [aliveAtJoin EXCEPT ![q] = Alive(q)]
    /\ crit' = [crit EXCEPT ![q] = IsAliveAttr(q)]
    /\ spc' = [spc EXCEPT ![q] = "returned"]
    /\ yraised' = [yraised EXCEPT ![q] = Reraised(ycaught[q])]
    /\ ypc' = [ypc EXCEPT ![q] = "raised"]
    /\ UNCHANGED <<secondVars, ycaught, ylogged, labVars, inputVars, ctorVars, drvVars,
                   conVars, stopped, blockedAtStop, atStop, mpc, rng, queue>>

\* one fraction and one seed: the exception path does not depend on them
InitFault ==
    InitWith(MaxN, {[mode |-> "frac", tenths |-> 5]}, 0, MaxB, {{}},
             CtorLabelCounts \ {<<>>}, CtorMaxLabelLen)

\* the pipeline while fit_generator consumes, with such exceptions
NextFault ==
    \/ ConstructSplit
    \/ \E q \in Queues : StartQueue(q)
    \/ \E q \in Queues : DriverLoop(q)
    \/ \E q \in Queues : DriverPut(q)
    \/ \E q \in Queues : ConsumerGet(q)
    \/ \E q \in Queues : \E e \in Faults : YieldRaise(q, e)
    \/ \E q \in Queues : YieldJoin(q)

SpecFault == InitFault /\ [][NextFault]_vars

\* ------------------- the driver with the test of the stop flag on its own
\* while not self.stopped.is_set(): the test alone; the flag may be set
\* between the test and the shuffle that follows it
DriverCheck(q) ==
    /\ dpc[q] = "loop"
    /\ IF IsSet(stopped[q])
       THEN dpc' = [dpc EXCEPT ![q] = "ended"]
       ELSE /\ epoch[q] < MaxEpochs
            /\ dpc' = [dpc EXCEPT ![q] = "checked"]
    /\ UNCHANGED <<secondVars, yieldVars, labVars, inputVars, ctorVars, qsamples, pos,
                   pending, epoch, nput, ebatches, stopVars, conVars, mpc, rng, queue>>

\* self.stopped.set() with the history of the driver at that moment
StopSetRecorded(q) == StopSetWith(q, TRUE)

\* the body of the while loop is entered after a test that found no stop
DriverBegin(q) ==
    /\ dpc[q] = "checked"
    /\ BeginEpoch(q)
    /\ UNCHANGED <<secondVars, yieldVars, labVars, inputVars, ctorVars, nput, stopVars,
                   conVars, mpc, queue>>

NextStop ==
    \/ ConstructSplit
    \/ \E q \in Queues : StartQueue(q)
    \/ \E q \in Queues : DriverCheck(q)
    \/ \E q \in Queues : DriverBegin(q)
    \/ \E q \in Queues : DriverPut(q)
    \/ \E q \in Queues : ConsumerGet(q)
    \/ \E q \in Queues : StopSetRecorded(q)
    \/ \E q \in Queues : StopJoin(q)

SpecStop == InitFault /\ [][NextStop]_vars

\* ------------------------------ the pipeline under fair scheduling, no stop
\* fit_generator keeps consuming and stop() is not called
NextLive ==
    \/ ConstructSplit
    \/ \E q \in Queues : StartQueue(q)
    \/ \E q \in Queues : DriverLoop(q)
    \/ \E q \in Queues : DriverPut(q)
    \/ \E q \in Queues : ConsumerGet(q)

\* the main thread goes on constructing; each driver thread is scheduled
\* whenever it can take a step (a put blocked on a full queue cannot); the
\* consumers keep asking for the next batch of each queue
Fairness ==
    /\ WF_vars(ConstructSplit \/ \E q \in Queues : StartQueue(q))
    /\ \A q \in Queues :
          /\ WF_vars(DriverLoop(q) \/ DriverPut(q))
          /\ WF_vars(ConsumerGet(q))

SpecLive == InitFault /\ [][NextLive]_vars /\ Fairness

\* --------------------------------- process_labels and then sample_to_x_y
\* prep_func on a sample whose labels are one occurrence of the raw label l
\* of the label counts, with the label_encoding process_labels returned
EncodeSample(l) ==
    /\ lpc = "done" /\ lresult.status = "ok"
    /\ xy = NoSample
    /\ xy' = SampleToY(l, lresult.encoding, max_label_len)
    /\ UNCHANGED <<secondVars, yieldVars, inputVars, labInputs, lpc, lresult, ctorVars,
                   drvVars, stopVars, conVars, mpc, rng, queue>>

NextEncode ==
    \/ CallProcessLabels
    \/ \E i \in 1..Len(label_counts) : EncodeSample(label_counts[i].label)

SpecEncode == InitLabels /\ [][NextEncode]_vars

\* ------------------------ several workers pulling from one batch sequence
\* next() on the generator guarded by threadsafe_generator, called by worker
\* w: the lock of the generator is taken
WorkerEnter(q, w) ==
    /\ mpc = "running"
    /\ ypc[q] = "iter"
    /\ holder[q] = 0
    /\ holder' = [holder EXCEPT ![q] = w]
    /\ UNCHANGED <<ngot, lastGot, wlast, secondVars, yieldVars, labVars,
                   inputVars, ctorVars, drvVars, stopVars, mpc, rng, queue>>

\* inside the lock: yield self._queue.get(), which blocks while the queue
\* is empty; the batch is returned to worker w and the lock released
WorkerGet(q, w) ==
    /\ holder[q] = w
    /\ queue[q] # <<>>
    /\ lastGot' = [lastGot EXCEPT ![q] = GetItem(queue[q])]
    /\ ngot' = [ngot EXCEPT ![q] = @ + 1]
    /\ queue' = [queue EXCEPT ![q] = GetResult(@)]
    /\ wlast' = [wlast EXCEPT ![q][w] = GetItem(queue[q]).k]
    /\ holder' = [holder EXCEPT ![q] = 0]
    /\ UNCHANGED <<secondVars, yieldVars, labVars, inputVars, ctorVars, drvVars,
                   stopVars, mpc, rng>>

\* the workers of the training sequence are followed; the validation
\* sequence is pulled in the same way and is left waiting
InitWorkers ==
    InitWith(MaxWorkerN, {[mode |-> "frac", tenths |-> 2]}, 0, MaxB, {{}},
             CtorLabelCounts \ {<<>>}, CtorMaxLabelLen)

NextWorkers ==
    \/ ConstructSplit
    \/ \E q \in Queues : StartQueue(q)
    \/ DriverLoop("train")
    \/ DriverPut("train")
    \/ \E w \in Workers : WorkerEnter("train", w)
    \/ \E w \in Workers : WorkerGet("train", w)

SpecWorkers == InitWorkers /\ [][NextWorkers]_vars

\* ================================================================== claims
Constructed == mpc \notin {"new", "failed"}

\* the driver of q has finished an epoch over a non-empty split and has not
\* begun the next: ebatches[q] holds the batches of that epoch
EpochDone(q) ==
    /\ dpc[q] \in {"loop", "ended"}
    /\ epoch[q] > 0
    /\ split[q] # <<>>

\* the samples of the batches bs, in order
RECURSIVE Flatten(_)
Flatten(bs) == IF bs = <<>> THEN <<>> ELSE Head(bs) \o Flatten(Tail(bs))

\* how often sample s occurs in the batches bs
Occurrences(bs, s) ==
    Cardinality({ij \in (1..Len(bs)) \X (1..MaxSplitN + MaxN + 1) :
                    ij[2] <= Len(bs[ij[1]]) /\ bs[ij[1]][ij[2]] = s})

\* C1: the batches enqueued during one epoch partition the shuffled list:
\* every sample of the split is in exactly one batch, the epoch has
\* ceil(N/B) batches, which is n_train_batches / n_valid_batches, and only
\* the last batch may hold fewer than B samples; in every epoch.
C1_EpochPartition ==
    \A q \in Queues : EpochDone(q) =>
        LET bs == ebatches[q]
            N  == Len(split[q])
            B  == batch_size
        IN  /\ Flatten(bs) = qsamples[q]
            /\ \A s \in Range(split[q]) : Occurrences(bs, s) = 1
            /\ \A i \in 1..Len(bs) : Range(bs[i]) \subseteq Range(split[q])
            /\ Len(bs) = n_batches[q]
            /\ Len(bs) * B >= N /\ (Len(bs) - 1) * B < N
            /\ \A i \in 1..Len(bs) - 1 : Len(bs[i]) = B
            /\ Len(bs[Len(bs)]) \in 1..B

\* a second epoch of three samples in batches of two has ended: sizes 2, 1
C1_Witness ==
    \E q \in Queues :
        /\ EpochDone(q) /\ epoch[q] = 2
        /\ Len(split[q]) = 3 /\ batch_size = 2
        /\ Len(ebatches[q]) = 2
        /\ Len(ebatches[q][1]) = 2 /\ Len(ebatches[q][2]) = 1

\* C2: when the transform raises inside the driver the consumer gets a
\* terminal error: no state has the driver dead from a transform error and
\* the consumer blocked on the empty queue, which nothing will fill again.
C2_ProducerFailureSurfaced ==
    \A q \in Queues :
        ~(dpc[q] = "crashed" /\ mpc = "running" /\ queue[q] = <<>>)

\* C3: stop() called while the driver is blocked putting into a full queue:
\* the driver is no longer alive when stop() returns.
C3_StopUnblocksDriver ==
    \A q \in Queues :
        (spc[q] = "returned" /\ blockedAtStop[q]) => ~aliveAtJoin[q]

\* C4: the queue never holds more than its capacity; the driver inserts only
\* below capacity and otherwise blocks.
C4_QueueBounded ==
    \A q \in Queues : Len(queue[q]) <= maxsize[q]

\* the queue is full and the driver is blocked in put with one more batch
C4_Witness ==
    \E q \in Queues :
        /\ maxsize[q] > 0 /\ Len(queue[q]) = maxsize[q]
        /\ dpc[q] = "put" /\ pending[q] # <<>>

\* C5: every batch put is handed to the consumer exactly once and in the
\* order of insertion: the queue holds exactly the batches put and not yet
\* handed out, oldest first, the consumer was last handed the one before
\* them, and the batches of the current epoch are the ones the driver put.
C5_Fifo ==
    \A q \in Queues :
        LET first == nput[q] - Len(ebatches[q])
        IN  /\ Len(queue[q]) = nput[q] - ngot[q]
            /\ \A i \in 1..Len(queue[q]) :
                  /\ queue[q][i].k = ngot[q] + i
                  /\ queue[q][i].k > first =>
                        queue[q][i].items = ebatches[q][queue[q][i].k - first]
            /\ ngot[q] > 0 =>
                  /\ lastGot[q].k = ngot[q]
                  /\ ngot[q] > first =>
                        lastGot[q].items = ebatches[q][ngot[q] - first]

\* the consumer has been handed a batch of the second epoch while later
\* batches wait in the queue
C5_Witness ==
    \E q \in Queues :
        /\ n_batches[q] >= 2
        /\ ngot[q] > n_batches[q]
        /\ Len(queue[q]) >= 2

\* C6: in both validation modes the two splits are disjoint, and shuffling
\* never moves a SampleRef between them.
C6_SplitsDisjoint ==
    Constructed =>
        /\ Range(split.train) \cap Range(split.valid) = {}
        /\ \A q \in Queues :
              dpc[q] # "notstarted" => Range(qsamples[q]) = Range(split[q])

\* C7: a request giving no training sample or no validation sample fails at
\* construction, before either driver thread is started.
C7_EmptySplitFailsFast ==
    (\E q \in Queues : dpc[q] # "notstarted") =>
        (split.train # <<>> /\ split.valid # <<>>)

\* C9: stop() returns, and logs "Read thread did not terminate." exactly
\* when the driver is still alive after the timed join.
C9_CriticalIffAlive ==
    \A q \in Queues : spc[q] = "returned" => (crit[q] <=> aliveAtJoin[q])

\* the truncated form of the raw label l: the string itself, or for a
\* (symbol, run_length) pair the upper-cased symbol repeated run_length
\* times, cut to the maximum length m
TruncatedForm(l, m) ==
    LET e == IF IsTuple(l) THEN [i \in 1..l.n |-> Upper(DecodingChar(l.b))] ELSE l.s
    IN  [i \in 1..Min(m, Len(e)) |-> e[i]]

RawLabels == {label_counts[i].label : i \in 1..Len(label_counts)}

\* C8: for label counts that are not empty and a maximum label length,
\* process_labels returns a LabelDecoding that is sorted, free of duplicates
\* and as long as there are distinct truncated labels, and
\* LabelDecoding[LabelEncoding[l]] is the truncated form of every raw label l.
C8_LabelRoundTrip ==
    (lpc = "done" /\ label_counts # <<>> /\ max_label_len.finite) =>
        LET dec == lresult.decoding
            enc == lresult.encoding
            m   == max_label_len.n
        IN  /\ lresult.status = "ok"
            /\ \A i \in 1..Len(dec) - 1 : LexLess(dec[i], dec[i + 1])
            /\ Len(dec) = Cardinality({TruncatedForm(l, m) : l \in RawLabels})
            /\ DOMAIN enc = RawLabels
            /\ \A l \in RawLabels :
                  /\ enc[l] \in 0..Len(dec) - 1
                  /\ dec[enc[l] + 1] = TruncatedForm(l, m)

\* counts of A, AA and AAA with maximum length 2: LabelDecoding [A, AA],
\* LabelEncoding A: 0, AA: 1, AAA: 1
C8_Witness ==
    /\ lpc = "done"
    /\ max_label_len = [finite |-> TRUE, n |-> 2]
    /\ RawLabels = {[b |-> 5, n |-> k] : k \in 1..3}
    /\ lresult.status = "ok"
    /\ lresult.decoding = <<<<"A">>, <<"A", "A">>>>
    /\ lresult.encoding[[b |-> 5, n |-> 1]] = 0
    /\ lresult.encoding[[b |-> 5, n |-> 2]] = 1
    /\ lresult.encoding[[b |-> 5, n |-> 3]] = 1

\* C10: in fractional mode the training split is the first
\* floor((1 - f) * N) elements of the seeded shuffle of the full list and the
\* validation split the remaining N - floor((1 - f) * N); together they
\* hold every sample exactly once.
C10_FractionalSplit ==
    (mpc = "split" /\ validation.mode = "frac") =>
        LET N  == Len(samples)
            n  == ((10 - validation.tenths) * N) \div 10
            sh == Shuffle(Iota(N), SeedRng(seed)).list
        IN  /\ split.train = SubSeq(sh, 1, n)
            /\ split.valid = SubSeq(sh, n + 1, N)
            /\ Len(split.train) = n
            /\ Len(split.valid) = N - n
            /\ \A x \in 1..N : Occurrences(<<split.train, split.valid>>, x) = 1

\* C11: two TrainBatcher constructions in fractional mode with the same seed,
\* fraction and input order give the same members to train_samples and to
\* valid_samples, whatever the pipeline did before or between them.
C11_SplitReproducible ==
    c2pc = "done" =>
        /\ Range(split2.train) = Range(split.train)
        /\ Range(split2.valid) = Range(split.valid)

\* the sum of the input counts of the items of label_counts at the indices I
RECURSIVE InputCount(_)
InputCount(I) ==
    IF I = {} THEN 0
    ELSE LET i == CHOOSE j \in I : TRUE
         IN  label_counts[i].count + InputCount(I \ {i})

\* the sum of the values of the mapping f
RECURSIVE Total(_)
Total(f) ==
    IF DOMAIN f = {} THEN 0
    ELSE LET c == CHOOSE d \in DOMAIN f : TRUE
         IN  f[c] + Total([d \in DOMAIN f \ {c} |-> f[d]])

\* C12: the counts process_labels returns sum to the sum of the input
\* counts, and the count under each code c is the sum of the input counts of
\* exactly the raw labels whose LabelEncoding is c.
C12_CountsConserved ==
    (lpc = "done" /\ lresult.status = "ok") =>
        LET idx == 1..Len(label_counts)
            enc == lresult.encoding
        IN  /\ Total(lresult.counts) = InputCount(idx)
            /\ DOMAIN lresult.counts = {enc[l] : l \in RawLabels}
            /\ \A c \in DOMAIN lresult.counts :
                  lresult.counts[c] =
                      InputCount({i \in idx : enc[label_counts[i].label] = c})

\* AA counted twice and AAA once collapse to the code of AA, which counts 3,
\* next to the code of A
C12_Witness ==
    /\ lpc = "done" /\ lresult.status = "ok"
    /\ max_label_len = [finite |-> TRUE, n |-> 2]
    /\ label_counts = <<[label |-> [s |-> <<"A", "A">>], count |-> 2],
                        [label |-> [s |-> <<"A">>], count |-> 1],
                        [label |-> [s |-> <<"A", "A", "A">>], count |-> 1]>>
    /\ lresult.counts = (0 :> 1 @@ 1 :> 3)

\* C13: when yield_batches meets an exception while removing from the queue
\* it logs the fault, calls stop() on its queue, which sets the stop flag,
\* and then raises the same exception to its caller; after the exception it
\* hands out no further batch.
C13_YieldReraises ==
    [][\A q \in Queues :
          /\ (ypc[q] = "iter" /\ ypc'[q] # "iter") =>
                /\ ypc'[q] = "joining"
                /\ ycaught'[q] \in Faults
                /\ ylogged'[q]
                /\ stopped'[q]
                /\ yraised'[q] = "none"
          /\ (ypc[q] = "joining" /\ ypc'[q] # "joining") =>
                /\ ypc'[q] = "raised"
                /\ spc'[q] = "returned"
                /\ stopped'[q]
                /\ yraised'[q] = ycaught[q]
          /\ ypc[q] # "iter" =>
                /\ ngot'[q] = ngot[q]
                /\ ypc'[q] # "iter"
                /\ ycaught'[q] = ycaught[q]
          /\ ypc[q] = "raised" => (ypc'[q] = "raised" /\ yraised'[q] = yraised[q])]_vars

\* after two batches the removal raised OSError, which left yield_batches
\* with the stop flag set while a batch was still queued
C13_Witness ==
    \E q \in Queues :
        /\ ypc[q] = "raised" /\ yraised[q] = "OSError" /\ ycaught[q] = "OSError"
        /\ ylogged[q] /\ stopped[q]
        /\ ngot[q] = 2 /\ queue[q] # <<>>

\* C14: when TrainBatcher.stop() has returned the stop flags of the training
\* queue and of the validation queue are both set and both BatchQueue.stop()
\* calls have returned, whatever the drivers were doing; also when the driver
\* of the queue stopped first was still alive after its timed join.
C14_StopSetsBothFlags ==
    mpc = "stopped" =>
        \A q \in Queues : stopped[q] /\ spc[q] = "returned"

\* stop() has returned; the training driver, stopped first, was blocked on
\* its full queue and still alive after the join, and the validation driver
\* had crashed before
C14_Witness ==
    /\ mpc = "stopped"
    /\ blockedAtStop.train /\ aliveAtJoin.train /\ dpc.train = "put"
    /\ dpc.valid = "crashed"
    /\ stopped.train /\ stopped.valid

\* C15: process_labels called with an empty label-count mapping raises an
\* error and returns no encoding, and in TrainBatcher.__init__ this happens
\* before either BatchQueue, and so either driver thread, is started.
C15_EmptyCountsFailFast ==
    label_counts = <<>> =>
        /\ \A q \in Queues : dpc[q] = "notstarted" /\ qsamples[q] = <<>>
        /\ mpc \in {"new", "failed"}
        /\ lpc = "done" =>
              /\ lresult.status \notin {"ok", "none"}
              /\ lresult.encoding = <<>>
              /\ mpc = "failed"

\* the constructor has split three samples and process_labels has raised
\* IndexError for the empty counts
C15_Witness ==
    /\ label_counts = <<>>
    /\ Len(samples) = 3 /\ split.train # <<>>
    /\ lpc = "done" /\ lresult.status = "IndexError"
    /\ mpc = "failed"
    /\ \A q \in Queues : dpc[q] = "notstarted"

\* the Counters with the items of lc in the other key orders
KeyOrders(lc) ==
    {[i \in 1..Len(lc) |-> lc[p[i]]] :
        p \in {f \in [1..Len(lc) -> 1..Len(lc)] :
                  \A i, j \in 1..Len(lc) : i # j => f[i] # f[j]}}

\* a rank that orders the raw labels of one Counter: symbol, then length
KeyRank(l) ==
    IF IsTuple(l) THEN l.b * (MaxRun + 1) + l.n
    ELSE CharRank(l.s[1]) * (MaxRun + 1) + Len(l.s)

\* the keys of lc are in increasing rank: one key order of each mapping
InRankOrder(lc) ==
    \A i \in 1..Len(lc) - 1 : KeyRank(lc[i].label) < KeyRank(lc[i + 1].label)

\* C16: process_labels does not depend on the iteration order of the input
\* mapping: the same (label, count) pairs in any key order, with the same
\* maximum length, give the same LabelEncoding, LabelDecoding and recomputed
\* counts (and raise when one order raises).  Every key order of a mapping
\* is compared with the rank order of that mapping.
C16_KeyOrderIndependent ==
    (lpc = "done" /\ InRankOrder(label_counts)) =>
        \A other \in KeyOrders(label_counts) :
            LET r == ProcessLabels(other, max_label_len)
            IN  /\ r.status = lresult.status
                /\ r.encoding = lresult.encoding
                /\ r.decoding = lresult.decoding
                /\ r.counts = lresult.counts

\* three labels, two of which collapse to one code, were encoded; five
\* other key orders exist
C16_Witness ==
    /\ lpc = "done" /\ lresult.status = "ok"
    /\ Len(label_counts) = 3 /\ InRankOrder(label_counts)
    /\ Cardinality(KeyOrders(label_counts) \ {label_counts}) = 5
    /\ Len(lresult.decoding) = 2
    /\ label_counts[1].count # label_counts[3].count

\* C17: the driver tests the stop flag only where an epoch starts.  A driver
\* that has ended because of a stop has put a whole multiple of ceil(N/B)
\* batches, namely all batches of every epoch it began; and once the flag is
\* set the driver puts at most ceil(N/B) further batches and begins at most
\* one further epoch.
C17_StopAtEpochBoundary ==
    \A q \in Queues :
        /\ dpc[q] = "ended" =>
              /\ stopped[q]
              /\ nput[q] = epoch[q] * n_batches[q]
              /\ n_batches[q] = Ceil(Len(split[q]), batch_size)
        /\ stopped[q] =>
              /\ nput[q] - atStop[q].nput <= Ceil(Len(split[q]), batch_size)
              /\ Begun(q) - atStop[q].begun <= 1

\* the flag was set between the test of the while loop and the shuffle: the
\* driver began one further epoch, put all its two batches and then ended
C17_Witness ==
    \E q \in Queues :
        /\ dpc[q] = "ended" /\ stopped[q]
        /\ n_batches[q] = 2
        /\ Begun(q) - atStop[q].begun = 1
        /\ nput[q] - atStop[q].nput = 2
        /\ atStop[q].nput = 2

\* the queue q is served: both queues are started, its split is not empty
\* and no sample lacks labels
Served(q) == mpc = "running" /\ split[q] # <<>> /\ unlabelled = {}

\* the driver of q has finished every epoch followed, is back at the test
\* of the while loop, and the consumer has been handed every batch of them
AllEpochsServed(q) ==
    /\ epoch[q] = MaxEpochs /\ dpc[q] = "loop"
    /\ nput[q] = MaxEpochs * n_batches[q]
    /\ ngot[q] = nput[q] /\ lastGot[q].k = ngot[q]

\* C18: with no stop request, no transform error, a split that is not empty
\* and fair scheduling of driver and consumer, the driver neither terminates
\* nor stays blocked: it finishes every epoch k within the epochs followed,
\* having shuffled for each (the epoch counter only ever grows by one, at the
\* end of an epoch), and every removal of the consumer within the batches of
\* those epochs returns a batch.
C18_DriverProgress ==
    \A q \in Queues :
        /\ [](Served(q) => dpc[q] \in {"loop", "put"})
        /\ Served(q) ~> AllEpochsServed(q)

\* every epoch followed has been finished and each of its two batches handed
\* to the consumer
C18_Witness ==
    \E q \in Queues :
        /\ Served(q) /\ n_batches[q] = 2
        /\ epoch[q] = MaxEpochs /\ dpc[q] = "loop"
        /\ ngot[q] = MaxEpochs * 2 /\ queue[q] = <<>>

\* C19: for every raw label l of the label counts and every maximum label
\* length, sample_to_x_y encodes an occurrence of l without error, to
\* LabelEncoding[l], the index in LabelDecoding of the truncated form of l:
\* the key it looks up is always a key of LabelEncoding.
C19_TransformEncodes ==
    xy # NoSample =>
        /\ xy.status = "ok"
        /\ SampleKey(xy.label, max_label_len) \in DOMAIN lresult.encoding
        /\ xy.y = lresult.encoding[xy.label]
        /\ max_label_len.finite =>
              lresult.decoding[xy.y + 1] = TruncatedForm(xy.label, max_label_len.n)

\* the fully expanded string of the (symbol, run_length) label l
ExpandedForm(l) == [i \in 1..l.n |-> Upper(DecodingChar(l.b))]

\* C20: with no maximum label length and (symbol, run_length) raw labels
\* process_labels succeeds; LabelDecoding is the sorted list of the distinct
\* fully expanded strings and every raw label is encoded as the index of its
\* expanded string.
C20_NoLimitTuples ==
    (/\ lpc = "done"
     /\ ~max_label_len.finite
     /\ label_counts # <<>>
     /\ \A l \in RawLabels : IsTuple(l)) =>
        LET dec == lresult.decoding
            enc == lresult.encoding
        IN  /\ lresult.status = "ok"
            /\ \A i \in 1..Len(dec) - 1 : LexLess(dec[i], dec[i + 1])
            /\ Range(dec) = {ExpandedForm(l) : l \in RawLabels}
            /\ DOMAIN enc = RawLabels
            /\ \A l \in RawLabels : dec[enc[l] + 1] = ExpandedForm(l)

\* C21: within each batch the order of the samples is kept: row i of the
\* j-th batch of an epoch is the transform of element j * B + i (j and i
\* counted from 0) of the list as shuffled for that epoch; for the batches
\* put, for the batch about to be put and for the batches still queued.
C21_OrderInBatch ==
    \A q \in Queues :
        LET B == batch_size
            L == qsamples[q]
            first == nput[q] - Len(ebatches[q])
        IN  /\ \A j \in 1..Len(ebatches[q]) : \A i \in 1..Len(ebatches[q][j]) :
                  ebatches[q][j][i] = L[(j - 1) * B + i]
            /\ dpc[q] = "put" =>
                  \A i \in 1..Len(pending[q]) :
                      pending[q][i] = L[Len(ebatches[q]) * B + i]
            /\ \A n \in 1..Len(queue[q]) :
                  queue[q][n].k > first =>
                      \A i \in 1..Len(queue[q][n].items) :
                          queue[q][n].items[i] = L[(queue[q][n].k - first - 1) * B + i]

\* in its second epoch the driver has put a batch of two samples that the
\* shuffle left in another order than the split, the second batch is pending
C21_Witness ==
    \E q \in Queues :
        /\ epoch[q] = 1 /\ dpc[q] = "put" /\ batch_size = 2
        /\ Len(qsamples[q]) = 3
        /\ ebatches[q] = <<SubSeq(qsamples[q], 1, 2)>>
        /\ pending[q] = <<qsamples[q][3]>>
        /\ qsamples[q][1] > qsamples[q][2]
        /\ qsamples[q] # split[q]

\* C22: the capacity of each BatchQueue that TrainBatcher constructs is
\* min(2 * batches per epoch, 100) for its split and is a positive integer:
\* never 0, which queue.Queue takes as unbounded.
C22_CapacityPositive ==
    \A q \in Queues :
        dpc[q] # "notstarted" =>
            /\ maxsize[q] = Min(2 * Ceil(Len(split[q]), batch_size), 100)
            /\ maxsize[q] > 0

\* C23: with several workers pulling from the same batch sequence every
\* batch the driver put is handed to exactly one worker: each removal hands
\* the oldest queued batch to the one worker inside the generator and to no
\* other, no two workers hold the same batch, and every batch put is either
\* handed out or still queued.
C23_ExactlyOneConsumer ==
    /\ [](\A q \in Queues :
            /\ ngot[q] + Len(queue[q]) = nput[q]
            /\ \A i \in 1..Len(queue[q]) : queue[q][i].k = ngot[q] + i
            /\ ngot[q] > 0 => \E w \in Workers : wlast[q][w] = ngot[q]
            /\ \A w \in Workers :
                  /\ wlast[q][w] <= ngot[q]
                  /\ \A v \in Workers \ {w} :
                        wlast[q][w] # 0 => wlast[q][w] # wlast[q][v])
    /\ [][\A q \in Queues :
            ngot'[q] # ngot[q] =>
                \E w \in Workers :
                    /\ holder[q] = w
                    /\ ngot'[q] = ngot[q] + 1
                    /\ wlast'[q][w] = ngot[q] + 1
                    /\ wlast'[q][w] = Head(queue[q]).k
                    /\ queue'[q] = Tail(queue[q])
                    /\ \A v \in Workers \ {w} : wlast'[q][v] = wlast[q][v]]_vars

\* two workers have each been handed a batch of one queue, the second
\* worker the first batch and the first worker the second, while the third
\* batch waits and the second worker is inside the generator again
C23_Witness ==
    \E q \in Queues :
        /\ ngot[q] = 2 /\ Len(queue[q]) = 1 /\ queue[q][1].k = 3
        /\ wlast[q][1] = 2 /\ wlast[q][2] = 1
        /\ holder[q] = 2

\* the list x after n shuffles in a row by a generator in state r that
\* nothing else draws from
RECURSIVE AloneShuffle(_, _, _)
AloneShuffle(x, r, n) ==
    IF n = 0 THEN x
    ELSE LET sh == Shuffle(x, r) IN AloneShuffle(sh.list, sh.rng, n - 1)

\* C24: for a fixed seed and fixed inputs the shuffle orders of the epochs
\* of one BatchQueue are the same in every run, whatever the other queue's
\* construction and driver do: the order of each epoch is the one the queue
\* produces when nothing else draws from the generator it was seeded with.
C24_ShuffleIndependent ==
    \A q \in Queues :
        dpc[q] = "put" =>
            qsamples[q] = AloneShuffle(split[q], SeedRng(seed), epoch[q] + 1)

\* C25: the number of classes baked into the per-sample transform for the
\* one-hot expansion is the number of distinct truncated labels, the length
\* of the label decoding, which is also the number of keys of the recomputed
\* label counts.
C25_ClassCount ==
    (lpc = "done" /\ lresult.status = "ok") =>
        /\ NClasses(label_counts) = Len(lresult.decoding)
        /\ NClasses(label_counts) = Cardinality(DOMAIN lresult.counts)

====
